---- MODULE Spec2Model ----
(***************************************************************************)
(* Model of src/app.py: the request-to-execution pipeline of the calendar  *)
(* helper (page-selection validation, upload handling, OCR dispatch, input *)
(* combination, GPT4o.chat, code extraction and execution).                *)
(*                                                                         *)
(* Text is modelled as a sequence of one-element tokens.  For reply texts  *)
(* the token "[fence]" is a three-backtick fence and "python" the literal  *)
(* language tag; for file names the extension words ("pdf", "PDF", ...)    *)
(* are single tokens, "a" is an ASCII letter and "U" is a character with   *)
(* no ASCII form (for instance a CJK character).                           *)
(***************************************************************************)
EXTENDS Integers, Sequences, FiniteSets, TLC

VARIABLES
    pc,                 \* position of the handler being run
    reqCount,           \* requests (or direct chat calls) started so far
    text_input,         \* request.form["text_input"]
    selected_pages_str, \* request.form["selected_pages"]
    upload,             \* request.files["file_upload"].filename (<< >>: none)
    selected_pages,     \* process(): selected_pages
    filename,           \* process(): filename = secure_filename(...)
    scratch,            \* files present in UPLOAD_FOLDER
    ocr_text,           \* process(): ocr_text
    combined_input,     \* process(): combined_input
    context,            \* gpt4o.context, the process-global transcript
    store,              \* the on-disk JSON context files
    message,            \* GPT4o.chat(): message
    save,               \* GPT4o.chat(): save
    caller,             \* who called GPT4o.chat: "process" or "direct"
    response_content,   \* GPT4o.chat(): response_content
    response_text,      \* process(): response_text
    generated_code,     \* process(): generated_code
    execution_output,   \* process(): execution_output
    flashed,            \* message passed to flash() in this request
    outcome,            \* what the last external call / exec did
    savedUpload,        \* this request called file.save
    ocrInvoked,         \* this request called ocr_image
    modelInvoked,       \* this request called client.chat.completions.create
    executed,           \* this request called exec
    contextAtCall,      \* gpt4o.context when the current chat call began
    storeAtCall,        \* store when the current chat call began
    fnArgs,             \* arguments of the pure function under check
    fnRes,              \* its result
    hostGlobals,        \* names the executed code has bound in globals()
    cpc,                \* concurrent requests: position of each thread
    cmsg,               \* concurrent requests: message of each thread's chat call
    csent,              \* concurrent requests: messages= of each thread's model call
    cresp               \* concurrent requests: response_content of each thread

vars == <<pc, reqCount, text_input, selected_pages_str, upload, selected_pages,
          filename, scratch, ocr_text, combined_input, context, store, message,
          save, caller, response_content, response_text, generated_code,
          execution_output, flashed, outcome, savedUpload, ocrInvoked,
          modelInvoked, executed, contextAtCall, storeAtCall, fnArgs, fnRes,
          hostGlobals, cpc, cmsg, csent, cresp>>

reqVars == <<text_input, selected_pages_str, upload>>
histVars == <<savedUpload, ocrInvoked, modelInvoked, executed>>
chatVars == <<message, save, caller, response_content, contextAtCall, storeAtCall>>
fnVars == <<fnArgs, fnRes>>
concVars == <<cpc, cmsg, csent, cresp>>

----------------------------------------------------------------------------
(* Bounds *)

MaxRequests == 1
MaxPageTokens == 3
MaxDocPages == 2
MaxStrLen == 2
MaxReplyLen == 6
MaxChats == 2
NumThreads == 2

----------------------------------------------------------------------------
(* Text helpers *)

\* Python's None.  No text of the model contains the token "None".
None == <<"None">>

\* The value of a call that raised TypeError / IndexError
TypeError == <<"TypeError">>
IndexError == <<"IndexError">>

\* Python truthiness of an optional string
Truthy(s) == s # None /\ s # << >>

SeqsUpTo(S, n) == UNION {[1..k -> S] : k \in 0..n}

IsSpace(c) == c \in {" ", "\n"}

RECURSIVE LStrip(_)
LStrip(s) == IF s = << >> THEN s
             ELSE IF IsSpace(Head(s)) THEN LStrip(Tail(s)) ELSE s

RECURSIVE RStrip(_)
RStrip(s) == IF s = << >> THEN s
             ELSE IF IsSpace(s[Len(s)]) THEN RStrip(SubSeq(s, 1, Len(s) - 1)) ELSE s

\* str.strip()
Strip(s) == RStrip(LStrip(s))

\* '.' in s, and generally c in s for a one-character c
Contains(s, c) == \E i \in 1..Len(s) : s[i] = c

\* str.split(sep): the list of the pieces between the separators
RECURSIVE Split(_, _)
Split(s, sep) ==
    IF ~Contains(s, sep) THEN <<s>>
    ELSE LET i == CHOOSE j \in 1..Len(s) : s[j] = sep /\ \A k \in 1..(j - 1) : s[k] # sep
         IN  <<SubSeq(s, 1, i - 1)>> \o Split(SubSeq(s, i + 1, Len(s)), sep)

\* str.rsplit(sep, 1): split once, at the last separator
RSplit1(s, sep) ==
    IF ~Contains(s, sep) THEN <<s>>
    ELSE LET i == CHOOSE j \in 1..Len(s) : s[j] = sep /\ \A k \in (j + 1)..Len(s) : s[k] # sep
         IN  <<SubSeq(s, 1, i - 1), SubSeq(s, i + 1, Len(s))>>

\* ",".join(parts)
RECURSIVE Join(_, _)
Join(parts, sep) ==
    IF parts = << >> THEN << >>
    ELSE IF Len(parts) = 1 THEN parts[1]
    ELSE parts[1] \o <<sep>> \o Join(Tail(parts), sep)

----------------------------------------------------------------------------
(* combine_inputs, src/app.py:197-206 *)

\* a buggy variant: joins both parts without skipping the empty ones
combine_inputs_NoSkip(user_input, ocr) ==
    (IF user_input = None THEN << >> ELSE user_input)
        \o <<" ">> \o (IF ocr = None THEN << >> ELSE ocr)

combine_inputs(user_input, ocr) ==
    LET parts1 == IF Truthy(user_input) THEN <<user_input>> ELSE << >>
        combined_parts == IF Truthy(ocr) THEN Append(parts1, ocr) ELSE parts1
    IN  Join(combined_parts, " ")

----------------------------------------------------------------------------
(* extract_code, src/app.py:295-302 *)

\* the three-backtick code fence
FENCE == "[fence]"
TAG == "python"

\* The ways the pattern of re.search (fence, tag, whitespace run, lazy group,
\* whitespace run, fence) can match s starting at position i: <<w, k, t>> gives
\* the lengths taken by the first whitespace run, by the group and by the
\* second whitespace run.  With re.DOTALL the group may hold any character.
MatchesAt(s, i) ==
    IF i + 1 > Len(s) \/ s[i] # FENCE \/ s[i + 1] # TAG THEN {}
    ELSE {m \in (0..Len(s)) \X (0..Len(s)) \X (0..Len(s)) :
            LET w == m[1]
                k == m[2]
                t == m[3]
                g == i + 2 + w      \* first position of the group
                e == g + k + t      \* position of the closing fence
            IN  /\ e <= Len(s)
                /\ s[e] = FENCE
                /\ \A j \in (i + 2)..(g - 1) : IsSpace(s[j])
                /\ \A j \in (g + k)..(e - 1) : IsSpace(s[j])}

\* a buggy variant: a greedy group instead of a lazy one
GreedyMatch(s, i) ==
    LET ms == MatchesAt(s, i)
        wmax == CHOOSE w \in {m[1] : m \in ms} : \A m \in ms : m[1] <= w
        ks == {m[2] : m \in {n \in ms : n[1] = wmax}}
        kmax == CHOOSE k \in ks : \A k2 \in ks : k2 <= k
    IN  <<wmax, kmax>>

\* The match the backtracking engine reports at position i: the first
\* whitespace run is greedy (longest first), the group is lazy (shortest first).
PreferredMatch(s, i) ==
    LET ms == MatchesAt(s, i)
        wmax == CHOOSE w \in {m[1] : m \in ms} : \A m \in ms : m[1] <= w
        ks == {m[2] : m \in {n \in ms : n[1] = wmax}}
        kmin == CHOOSE k \in ks : \A k2 \in ks : k <= k2
    IN  <<wmax, kmin>>

\* code_match.group(1) for the match at position i
Group1(s, i) ==
    LET m == PreferredMatch(s, i)
    IN  SubSeq(s, i + 2 + m[1], i + 1 + m[1] + m[2])

\* re.search: the match at the leftmost position that has one.
\* The value is TypeError for a None argument, which re.search rejects.
extract_code(reply) ==
    IF reply = None THEN TypeError
    ELSE LET starts == {i \in 1..Len(reply) : MatchesAt(reply, i) # {}}
         IN  IF starts = {} THEN << >>
             ELSE LET i == CHOOSE j \in starts : \A j2 \in starts : j <= j2
                  IN  Strip(Group1(reply, i))

----------------------------------------------------------------------------
(* Page selection, src/app.py:316-326 *)

\* The characters for which str.isdigit() is true: the decimal digits and,
\* among others, the superscript digits; "sup2" is U+00B2 (SUPERSCRIPT TWO).
DecimalChars == {"1", "2"}
DigitChars == DecimalChars \cup {"sup2"}

\* str.isdigit()
IsDigit(s) == s # << >> /\ \A i \in 1..Len(s) : s[i] \in DigitChars

\* int(s) raises ValueError on a character that is no decimal digit
IntRaises(s) == \E i \in 1..Len(s) : s[i] \notin DecimalChars

DecimalValue(c) == IF c = "1" THEN 1 ELSE 2

\* int(s) for a string of decimal digits
RECURSIVE IntOf(_)
IntOf(s) == IF s = << >> THEN 0
            ELSE 10 * IntOf(SubSeq(s, 1, Len(s) - 1)) + DecimalValue(s[Len(s)])

\* the filter of the list comprehension: num.strip().isdigit()
IsPageToken(num) == IsDigit(Strip(num))

\* a buggy variant: an off-by-one page limit
TooManyPages_OffByOne(pages) == Len(pages) > 3

\* len(selected_pages) > 2
TooManyPages(pages) == Len(pages) > 2

\* The try block of lines 319-326: the list comprehension, then the limit.
ParsePages(str) ==
    LET toks == SelectSeq(Split(str, ","), IsPageToken)
    IN  IF \E i \in 1..Len(toks) : IntRaises(Strip(toks[i]))
        THEN [status |-> "ValueError", pages |-> << >>]
        ELSE LET pages == [i \in 1..Len(toks) |-> IntOf(Strip(toks[i]))]
             IN  IF TooManyPages(pages)
                 THEN [status |-> "too_many", pages |-> pages]
                 ELSE [status |-> "ok", pages |-> pages]

----------------------------------------------------------------------------
(* Uploads, src/app.py:57-60, 328-343 *)

ALLOWED_EXTENSIONS == {<<"png">>, <<"jpg">>, <<"jpeg">>, <<"gif">>, <<"pdf">>, <<"docx">>}

LowerTok(c) == CASE c = "PDF" -> "pdf"
                 [] c = "DOCX" -> "docx"
                 [] c = "PNG" -> "png"
                 [] OTHER -> c

\* str.lower()
Lower(s) == [i \in 1..Len(s) |-> LowerTok(s[i])]

\* a buggy variant: looks at the part after the first dot, not the last
allowed_file_FirstDot(name) ==
    Contains(name, ".") /\ Lower(Split(name, ".")[2]) \in ALLOWED_EXTENSIONS

allowed_file(name) ==
    Contains(name, ".") /\ Lower(RSplit1(name, ".")[2]) \in ALLOWED_EXTENSIONS

IsAscii(c) == c # "U"

RECURSIVE StripDots(_)
StripDots(s) ==
    IF s = << >> THEN s
    ELSE IF Head(s) \in {".", "_"} THEN StripDots(Tail(s))
    ELSE IF s[Len(s)] \in {".", "_"} THEN StripDots(SubSeq(s, 1, Len(s) - 1))
    ELSE s

\* werkzeug.utils.secure_filename: drops the characters that have no ASCII
\* form, then strips dots and underscores from both ends.
secure_filename(name) == StripDots(SelectSeq(name, IsAscii))

\* str.endswith
EndsWith(s, suffix) ==
    Len(s) >= Len(suffix) /\ SubSeq(s, Len(s) - Len(suffix) + 1, Len(s)) = suffix

----------------------------------------------------------------------------
(* ocr_image, src/app.py:125-191 *)

DigitTok(k) == IF k = 1 THEN "1" ELSE IF k = 2 THEN "2" ELSE IF k = 3 THEN "3" ELSE "4"

\* lines 134-139 / 159-164: the pages kept of a document of n pages
FilterPages(n, pages) ==
    IF pages # << >>
    THEN Len(SelectSeq(pages, LAMBDA page_num : 1 <= page_num /\ page_num <= n))
    ELSE n

\* lines 141-145 / 166-170: the headers count the pages kept, from 1
RECURSIVE ExtractedText(_)
ExtractedText(count) ==
    IF count = 0 THEN << >>
    ELSE ExtractedText(count - 1) \o <<"--- Page ", DigitTok(count), " ---\n", "o", "\n">>

\* temp_pdf of line 150
TempPdf(path) == RSplit1(path, ".")[1] \o <<"_temp", ".", "pdf">>

\* What one call of ocr_image can do, as records [text, files]: the returned
\* text, the files in UPLOAD_FOLDER afterwards and the path taken through the
\* function.  The libraries decide:
\* conv (docx2pdf.convert), render (convert_from_path), n (pages rendered),
\* recog (PILImage.open / image_to_string), txt (text recognised in an image).
OcrResults(path, isPath, pages, files) ==
    {r \in [text : {<< >>, <<"o">>} \cup {ExtractedText(c) : c \in 0..MaxDocPages},
            files : {files, files \cup {TempPdf(path)}, files \ {TempPdf(path)}},
            path : {"pages_ok", "pages_raised", "convert_raised", "image_ok", "image_raised"}] :
        \E conv \in {"ok", "raise"}, render \in {"ok", "raise"}, n \in 1..MaxDocPages,
           recog \in {"ok", "raise"}, txt \in {<< >>, <<"o">>} :
            LET count == FilterPages(n, pages)
                pagesOK == render = "ok" /\ (count = 0 \/ recog = "ok")
            IN  IF isPath /\ EndsWith(Lower(path), <<".", "pdf">>)
                THEN /\ r.files = files
                     /\ r.text = IF pagesOK THEN ExtractedText(count) ELSE << >>
                     /\ r.path = IF pagesOK THEN "pages_ok" ELSE "pages_raised"
                ELSE IF isPath /\ EndsWith(Lower(path), <<".", "docx">>)
                THEN IF conv = "raise"
                     THEN r.files = files /\ r.text = << >> /\ r.path = "convert_raised"
                     ELSE IF pagesOK
                          THEN /\ r.files = files \ {TempPdf(path)}
                               /\ r.text = ExtractedText(count)
                               /\ r.path = "pages_ok"
                          ELSE /\ r.files = files \cup {TempPdf(path)}
                               /\ r.text = << >>
                               /\ r.path = "pages_raised"
                ELSE /\ r.files = files
                     /\ r.text = IF recog = "ok" THEN txt ELSE << >>
                     /\ r.path = IF recog = "ok" THEN "image_ok" ELSE "image_raised"}

----------------------------------------------------------------------------
(* The on-disk context files, src/app.py:236, 242-260, 568-571 *)

json_file == "gpt4oContext1.json"
json_files_to_clear == {"gpt4oContext1.json", "gpt4oMiniContext1.json", "gpt3pt5TurboContext1.json"}
StoreFiles == json_files_to_clear

\* A file is missing, holds a JSON object (data: the mapping), holds some
\* other JSON value (a list), or holds text json.load cannot parse.
Missing == [kind |-> "missing", data |-> << >>]
Unparseable == [kind |-> "unparseable", data |-> << >>]
JsonList == [kind |-> "list", data |-> << >>]
JsonObject(d) == [kind |-> "object", data |-> d]

\* data[input_text] = output_text on a dict
DictSet(d, k, v) == [x \in (DOMAIN d) \cup {k} |-> IF x = k THEN v ELSE d[x]]

\* clear_json_files, lines 242-246
clear_json_files(st, files) ==
    [f \in StoreFiles |-> IF f \in files THEN JsonObject(<< >>) ELSE st[f]]

\* save_to_json, lines 248-260: [raised, store].  Only FileNotFoundError is
\* caught; json.load raises JSONDecodeError on unparseable text and the item
\* assignment raises TypeError on a list.
save_to_json(st, input_text, output_text, sv) ==
    IF ~sv THEN [raised |-> FALSE, store |-> st]
    ELSE IF st[json_file].kind \in {"unparseable", "list"}
    THEN [raised |-> TRUE, store |-> st]
    ELSE LET data == IF st[json_file].kind = "missing" THEN << >> ELSE st[json_file].data
         IN  [raised |-> FALSE,
              store |-> [st EXCEPT ![json_file] =
                            JsonObject(DictSet(data, input_text, output_text))]]

----------------------------------------------------------------------------
(* GPT4o.chat, src/app.py:218-240 *)

Msg(role, content) == [role |-> role, content |-> content]

\* a buggy variant: the system preamble is added after the user message
AppendUser_SystemLast(ctx, msg) ==
    IF ctx = << >>
    THEN <<Msg("user", msg), Msg("system", <<"You are a helpful assistant.">>)>>
    ELSE Append(ctx, Msg("user", msg))

\* lines 221-224
AppendUser(ctx, msg) ==
    LET c1 == IF ctx = << >>
              THEN Append(ctx, Msg("system", <<"You are a helpful assistant.">>))
              ELSE ctx
    IN  Append(c1, Msg("user", msg))

\* the f-string of lines 348-565 around combined_input
Prompt(text) == <<"Generate a Python script ... to Google Calendar: ">> \o text
                    \o <<". ... Return only the Python code in a code block.">>

\* What message.content of the top choice can be
ModelContents ==
    {None, << >>, <<"x">>, <<FENCE, TAG, "\n", "x", "\n", FENCE, "\n">>}

----------------------------------------------------------------------------
(* Inputs of a request *)

\* a page number with a blank before it, a word, and the superscript two
PageTokens == {<<" ", "2">>, <<"a">>, <<"sup2">>}

PageStrings == {Join(ts, ",") : ts \in SeqsUpTo(PageTokens, MaxPageTokens)}

TextInputs == {<< >>, <<"t">>}

\* << >> is the empty filename the browser sends when no file was chosen
Uploads == {<< >>, <<"a", ".", "pdf">>, <<"a", ".", "DOCX">>, <<"a", ".", "png">>,
            <<"a", ".", "exe">>, <<"a">>, <<"U", ".", "pdf">>,
            <<"a", ".", "pdf", ".", "exe">>}

----------------------------------------------------------------------------
(* State *)

InitCommon ==
    /\ pc = "Idle"
    /\ reqCount = 0
    /\ text_input = << >>
    /\ selected_pages_str = << >>
    /\ upload = << >>
    /\ selected_pages = << >>
    /\ filename = << >>
    /\ scratch = {}
    /\ ocr_text = << >>
    /\ combined_input = << >>
    /\ context = << >>
    /\ message = << >>
    /\ save = FALSE
    /\ caller = "none"
    /\ response_content = None
    /\ response_text = None
    /\ generated_code = << >>
    /\ execution_output = << >>
    /\ flashed = ""
    /\ outcome = "none"
    /\ savedUpload = FALSE
    /\ ocrInvoked = FALSE
    /\ modelInvoked = FALSE
    /\ executed = FALSE
    /\ contextAtCall = << >>
    /\ storeAtCall = [f \in StoreFiles |-> Missing]
    /\ hostGlobals = {}

Threads == 1..NumThreads

\* no request is in a concurrent chat call
NoThreads ==
    /\ cpc = [t \in Threads |-> "off"]
    /\ cmsg = [t \in Threads |-> << >>]
    /\ csent = [t \in Threads |-> << >>]
    /\ cresp = [t \in Threads |-> None]

Init ==
    /\ InitCommon
    /\ NoThreads
    /\ store = [f \in StoreFiles |-> Missing]
    /\ fnArgs = << >>
    /\ fnRes = << >>

----------------------------------------------------------------------------
(* process, src/app.py:311-588 *)

\* A request arrives: lines 314-317 read the form
Receive ==
    /\ pc = "Idle"
    /\ reqCount < MaxRequests
    /\ \E t \in TextInputs, p \in PageStrings, u \in Uploads :
        /\ text_input' = t
        /\ selected_pages_str' = p
        /\ upload' = u
    /\ reqCount' = reqCount + 1
    /\ pc' = "Validating"
    /\ UNCHANGED <<selected_pages, filename, scratch, ocr_text, combined_input, context,
                   store, response_text, generated_code, execution_output, flashed,
                   outcome, histVars, chatVars, fnVars, hostGlobals, concVars>>

\* lines 318-326
ValidatePages ==
    /\ pc = "Validating"
    /\ IF selected_pages_str = << >>
       THEN /\ pc' = "CheckUpload"
            /\ UNCHANGED <<selected_pages, flashed>>
       ELSE LET r == ParsePages(selected_pages_str)
            IN  /\ selected_pages' = r.pages
                /\ flashed' = CASE r.status = "too_many" -> "Please select a maximum of 2 pages."
                                [] r.status = "ValueError" -> "Invalid page numbers entered."
                                [] OTHER -> flashed
                /\ pc' = IF r.status = "ok" THEN "CheckUpload" ELSE "Redirect"
    /\ UNCHANGED <<reqCount, reqVars, filename, scratch, ocr_text, combined_input, context,
                   store, response_text, generated_code, execution_output,
                   outcome, histVars, chatVars, fnVars, hostGlobals, concVars>>

\* lines 328-335
CheckUpload ==
    /\ pc = "CheckUpload"
    /\ IF upload = << >>
       THEN /\ pc' = "Prompting"
            /\ UNCHANGED <<filename, scratch, flashed, savedUpload>>
       ELSE IF ~allowed_file(upload)
       THEN /\ flashed' = "File type not allowed! Please upload an image, PDF, or DOCX file."
            /\ pc' = "Redirect"
            /\ UNCHANGED <<filename, scratch, savedUpload>>
       ELSE /\ filename' = secure_filename(upload)
            /\ scratch' = scratch \cup {filename'}
            /\ savedUpload' = TRUE
            /\ pc' = "Extracting"
            /\ UNCHANGED flashed
    /\ UNCHANGED <<reqCount, reqVars, selected_pages, ocr_text, combined_input, context,
                   store, response_text, generated_code, execution_output,
                   outcome, ocrInvoked, modelInvoked, executed, chatVars, fnVars, hostGlobals, concVars>>

\* lines 337-342: the extension of the sanitized name, then ocr_image on the
\* path (pdf, docx) or on the opened file (images)
Extract ==
    /\ pc = "Extracting"
    /\ IF ~Contains(filename, ".")
       THEN /\ outcome' = "IndexError"
            /\ pc' = "Crashed"
            /\ UNCHANGED <<ocr_text, scratch, ocrInvoked>>
       ELSE LET ext == Lower(RSplit1(filename, ".")[2])
            IN  /\ \E r \in OcrResults(filename, ext \in {<<"pdf">>, <<"docx">>},
                                       selected_pages, scratch) :
                        /\ ocr_text' = r.text
                        /\ scratch' = r.files
                        /\ outcome' = r.path
                /\ ocrInvoked' = TRUE
                /\ pc' = "Cleanup"
    /\ UNCHANGED <<reqCount, reqVars, selected_pages, filename, combined_input, context,
                   store, response_text, generated_code, execution_output, flashed,
                   savedUpload, modelInvoked, executed, chatVars, fnVars, hostGlobals, concVars>>

\* line 343
Cleanup ==
    /\ pc = "Cleanup"
    /\ scratch' = scratch \ {filename}
    /\ pc' = "Prompting"
    /\ UNCHANGED <<reqCount, reqVars, selected_pages, filename, ocr_text, combined_input,
                   context, store, response_text, generated_code, execution_output,
                   flashed, outcome, histVars, chatVars, fnVars, hostGlobals, concVars>>

\* lines 345-573: combine the inputs, build the prompt, clear the context
\* files that exist, and call get_gpt4o_response, which calls gpt4o.chat
BuildPrompt ==
    /\ pc = "Prompting"
    /\ combined_input' = combine_inputs(text_input, ocr_text)
    /\ store' = [f \in StoreFiles |->
                    IF f \in {"gpt4oContext1.json", "gpt4oMiniContext1.json"}
                       /\ store[f].kind # "missing"
                    THEN JsonObject(<< >>) ELSE store[f]]
    /\ message' = Prompt(combined_input')
    /\ save' = FALSE
    /\ caller' = "process"
    /\ contextAtCall' = context
    /\ storeAtCall' = store'
    /\ pc' = "chat_append"
    /\ UNCHANGED <<reqCount, reqVars, selected_pages, filename, scratch, ocr_text, context,
                   response_content, response_text, generated_code, execution_output,
                   flashed, outcome, histVars, fnVars, hostGlobals, concVars>>

----------------------------------------------------------------------------
(* GPT4o.chat step by step, and get_gpt4o_response around it *)

\* lines 219-224: pad the message, ensure the system preamble, append the user
\* message
ChatAppend ==
    /\ pc = "chat_append"
    /\ message' = (IF message = None THEN << >> ELSE message) \o <<" ">>
    /\ context' = AppendUser(context, message')
    /\ pc' = "chat_call"
    /\ UNCHANGED <<reqCount, reqVars, selected_pages, filename, scratch, ocr_text,
                   combined_input, store, save, caller, response_content, contextAtCall,
                   storeAtCall, response_text, generated_code, execution_output, flashed,
                   outcome, histVars, fnVars, hostGlobals, concVars>>

\* lines 226-230: the remote call returns a content or raises.  A raise leaves
\* chat; get_gpt4o_response (lines 291-293) catches it.
ChatCall ==
    /\ pc = "chat_call"
    /\ modelInvoked' = TRUE
    /\ \/ /\ \E c \in ModelContents : response_content' = c
          /\ outcome' = "ok"
          /\ pc' = "chat_finish"
       \/ /\ outcome' = "raise"
          /\ pc' = IF caller = "process" THEN "Returning" ELSE "ChatRaised"
          /\ UNCHANGED response_content
    /\ UNCHANGED <<reqCount, reqVars, selected_pages, filename, scratch, ocr_text,
                   combined_input, context, store, message, save, caller, contextAtCall,
                   storeAtCall, response_text, generated_code, execution_output, flashed,
                   savedUpload, ocrInvoked, executed, fnVars, hostGlobals, concVars>>

\* lines 232-240: append the reply, save_to_json, clear the files unless save
ChatFinish ==
    /\ pc = "chat_finish"
    /\ context' = Append(context, Msg("assistant", response_content))
    /\ LET r == save_to_json(store, message, response_content, save)
       IN  IF r.raised
           THEN /\ store' = r.store
                /\ outcome' = "raise"
                /\ pc' = IF caller = "process" THEN "Returning" ELSE "ChatRaised"
           ELSE /\ store' = IF ~save THEN clear_json_files(r.store, json_files_to_clear)
                            ELSE r.store
                /\ outcome' = "ok"
                /\ pc' = IF caller = "process" THEN "Returning" ELSE "ChatReturned"
    /\ UNCHANGED <<reqCount, reqVars, selected_pages, filename, scratch, ocr_text,
                   combined_input, chatVars, response_text, generated_code,
                   execution_output, flashed, histVars, fnVars, hostGlobals, concVars>>

\* get_gpt4o_response, lines 286-293: None for a raise or an empty content,
\* else the stripped content
GetResponse ==
    /\ pc = "Returning"
    /\ response_text' = IF outcome = "raise" \/ ~Truthy(response_content) THEN None
                        ELSE Strip(response_content)
    /\ pc' = "CodeExtraction"
    /\ UNCHANGED <<reqCount, reqVars, selected_pages, filename, scratch, ocr_text,
                   combined_input, context, store, chatVars, generated_code,
                   execution_output, flashed, outcome, histVars, fnVars, hostGlobals, concVars>>

\* line 574: nothing catches what extract_code raises
ExtractCode ==
    /\ pc = "CodeExtraction"
    /\ LET code == extract_code(response_text)
       IN  IF code = TypeError
           THEN /\ outcome' = "TypeError"
                /\ pc' = "Crashed"
                /\ UNCHANGED generated_code
           ELSE /\ generated_code' = code
                /\ pc' = "Executing"
                /\ UNCHANGED outcome
    /\ UNCHANGED <<reqCount, reqVars, selected_pages, filename, scratch, ocr_text,
                   combined_input, context, store, chatVars, response_text,
                   execution_output, flashed, histVars, fnVars, hostGlobals, concVars>>

\* What exec of the generated code can do: return normally having printed out,
\* raise an Exception, or raise a BaseException that is no Exception
\* (SystemExit from sys.exit(), KeyboardInterrupt).
ExecResults == {"ok", "Exception", "SystemExit"}

ExecutionError == <<"Execution Error: ", "e">>

\* exec(generated_code, globals()) runs the code with the module's own
\* namespace as its globals: what the code binds at its top level (the def
\* of main, its imports) is bound there, whether or not the code then raises.
ExecBindings == {{}, {"main"}}

\* lines 575-583
Execute ==
    /\ pc = "Executing"
    /\ IF generated_code = << >>
       THEN /\ execution_output' = << >>
            /\ pc' = "Reporting"
            /\ UNCHANGED <<executed, outcome, hostGlobals>>
       ELSE /\ executed' = TRUE
            /\ \E res \in ExecResults, out \in {<< >>, <<"out">>} :
                 /\ outcome' = res
                 /\ execution_output' = IF res = "ok" THEN out
                                        ELSE IF res = "Exception" THEN ExecutionError
                                        ELSE << >>
                 /\ pc' = IF res = "SystemExit" THEN "Crashed" ELSE "Reporting"
            /\ \E bound \in ExecBindings : hostGlobals' = hostGlobals \cup bound
    /\ UNCHANGED <<reqCount, reqVars, selected_pages, filename, scratch, ocr_text,
                   combined_input, context, store, chatVars, response_text,
                   generated_code, flashed, savedUpload, ocrInvoked, modelInvoked, fnVars, concVars>>

\* The request is over: the result view was rendered (lines 585-588), the
\* redirect was sent, or the exception left process().  Its locals are gone.
Respond ==
    /\ pc \in {"Reporting", "Redirect", "Crashed"}
    /\ pc' = "Idle"
    /\ text_input' = << >>
    /\ selected_pages_str' = << >>
    /\ upload' = << >>
    /\ selected_pages' = << >>
    /\ filename' = << >>
    /\ ocr_text' = << >>
    /\ combined_input' = << >>
    /\ message' = << >>
    /\ save' = FALSE
    /\ caller' = "none"
    /\ response_content' = None
    /\ response_text' = None
    /\ generated_code' = << >>
    /\ execution_output' = << >>
    /\ flashed' = ""
    /\ outcome' = "none"
    /\ savedUpload' = FALSE
    /\ ocrInvoked' = FALSE
    /\ modelInvoked' = FALSE
    /\ executed' = FALSE
    /\ contextAtCall' = << >>
    /\ storeAtCall' = [f \in StoreFiles |-> Missing]
    /\ UNCHANGED <<reqCount, scratch, context, store, fnVars, hostGlobals, concVars>>

Next ==
    \/ Receive
    \/ ValidatePages
    \/ CheckUpload
    \/ Extract
    \/ Cleanup
    \/ BuildPrompt
    \/ ChatAppend
    \/ ChatCall
    \/ ChatFinish
    \/ GetResponse
    \/ ExtractCode
    \/ Execute
    \/ Respond

Spec == Init /\ [][Next]_vars

----------------------------------------------------------------------------
(* GPT4o.chat called directly, with either value of save *)

ChatMessages == {None, << >>, <<"h">>}

InitChat ==
    /\ InitCommon
    /\ NoThreads
    /\ \E k \in {Missing, Unparseable, JsonList, JsonObject(<< >>)} :
          store = [f \in StoreFiles |-> IF f = json_file THEN k ELSE Missing]
    /\ fnArgs = << >>
    /\ fnRes = << >>

\* a caller enters chat(message, save)
DirectChat ==
    /\ pc = "Idle"
    /\ reqCount < MaxChats
    /\ \E m \in ChatMessages, sv \in BOOLEAN :
        /\ message' = m
        /\ save' = sv
    /\ caller' = "direct"
    /\ contextAtCall' = context
    /\ storeAtCall' = store
    /\ reqCount' = reqCount + 1
    /\ pc' = "chat_append"
    /\ UNCHANGED <<reqVars, selected_pages, filename, scratch, ocr_text, combined_input,
                   context, store, response_content, response_text, generated_code,
                   execution_output, flashed, outcome, histVars, fnVars, hostGlobals, concVars>>

\* chat has returned or raised; the caller goes on
DirectDone ==
    /\ pc \in {"ChatReturned", "ChatRaised"}
    /\ pc' = "Idle"
    /\ message' = << >>
    /\ save' = FALSE
    /\ caller' = "none"
    /\ response_content' = None
    /\ outcome' = "none"
    /\ modelInvoked' = FALSE
    /\ contextAtCall' = << >>
    /\ storeAtCall' = [f \in StoreFiles |-> Missing]
    /\ UNCHANGED <<reqCount, reqVars, selected_pages, filename, scratch, ocr_text,
                   combined_input, context, store, response_text, generated_code,
                   execution_output, flashed, savedUpload, ocrInvoked, executed, fnVars, hostGlobals, concVars>>

NextChat ==
    \/ DirectChat
    \/ ChatAppend
    \/ ChatCall
    \/ ChatFinish
    \/ DirectDone

SpecChat == InitChat /\ [][NextChat]_vars

----------------------------------------------------------------------------
(* combine_inputs and extract_code on their own *)

OptStrings == {None} \cup SeqsUpTo({"x", " "}, MaxStrLen)

InitCombine ==
    /\ InitCommon
    /\ NoThreads
    /\ store = [f \in StoreFiles |-> Missing]
    /\ fnArgs \in OptStrings \X OptStrings
    /\ fnRes = << >>

ApplyCombine ==
    /\ pc = "Idle"
    /\ fnRes' = combine_inputs(fnArgs[1], fnArgs[2])
    /\ pc' = "Applied"
    /\ UNCHANGED <<reqCount, reqVars, selected_pages, filename, scratch, ocr_text,
                   combined_input, context, store, chatVars, response_text,
                   generated_code, execution_output, flashed, outcome, histVars, fnArgs, hostGlobals, concVars>>

SpecCombine == InitCombine /\ [][ApplyCombine]_vars

ReplyChars == {FENCE, TAG, " ", "\n", "x"}

InitExtract ==
    /\ InitCommon
    /\ NoThreads
    /\ store = [f \in StoreFiles |-> Missing]
    /\ fnArgs \in {<<r>> : r \in SeqsUpTo(ReplyChars, MaxReplyLen)}
    /\ fnRes = << >>

ApplyExtract ==
    /\ pc = "Idle"
    /\ fnRes' = extract_code(fnArgs[1])
    /\ pc' = "Applied"
    /\ UNCHANGED <<reqCount, reqVars, selected_pages, filename, scratch, ocr_text,
                   combined_input, context, store, chatVars, response_text,
                   generated_code, execution_output, flashed, outcome, histVars, fnArgs, hostGlobals, concVars>>

SpecExtract == InitExtract /\ [][ApplyExtract]_vars

----------------------------------------------------------------------------
(* Properties *)

IsPrefix(a, b) == Len(a) <= Len(b) /\ SubSeq(b, 1, Len(a)) = a

RequestOver == pc \in {"Reporting", "Redirect", "Crashed"}

\* A numeric token of the page selection: an unsigned decimal number, blanks
\* around it allowed (page indices are positive).
IsNumericToken(tok) ==
    Strip(tok) # << >> /\ \A i \in 1..Len(Strip(tok)) : Strip(tok)[i] \in DecimalChars

PageTokensOf(str) == IF str = << >> THEN << >> ELSE Split(str, ",")

NumericCount(str) ==
    Cardinality({i \in 1..Len(PageTokensOf(str)) : IsNumericToken(PageTokensOf(str)[i])})

HasNonNumericToken(str) ==
    \E i \in 1..Len(PageTokensOf(str)) : ~IsNumericToken(PageTokensOf(str)[i])

\* The extension of a file name: what follows its last dot, in lower case;
\* << >> when the name has no dot.
ExtensionOf(name) ==
    IF \A i \in 1..Len(name) : name[i] # "." THEN << >>
    ELSE LET d == CHOOSE i \in 1..Len(name) :
                    name[i] = "." /\ \A j \in (i + 1)..Len(name) : name[j] # "."
         IN  Lower(SubSeq(name, d + 1, Len(name)))

DisallowedUpload(name) ==
    name # << >> /\ ExtensionOf(name) \notin ALLOWED_EXTENSIONS

\* C1: when the model call raised or returned no content, the request ends
\* by rendering the result view with empty generated code and empty
\* execution output, nothing having been executed; it does not crash.
C1_ModelFailureDegrades ==
    (RequestOver /\ modelInvoked /\ response_text = None)
        => /\ pc = "Reporting"
           /\ generated_code = << >>
           /\ execution_output = << >>
           /\ ~executed

\* C2: a request whose selected_pages string has a non-numeric token is
\* rejected with a flash and a redirect, and goes no further than validation.
C2_NonNumericRejected ==
    (HasNonNumericToken(selected_pages_str) /\ pc \notin {"Idle", "Validating"})
        => /\ pc = "Redirect"
           /\ flashed # ""
           /\ ~ocrInvoked /\ ~modelInvoked /\ ~executed

\* C3: a request whose selected_pages string has more than 2 numeric tokens
\* is rejected with a flash and a redirect; it never saves the upload and
\* never invokes OCR, the model or exec.
C3_MoreThanTwoRejected ==
    (NumericCount(selected_pages_str) > 2 /\ pc \notin {"Idle", "Validating"})
        => /\ pc = "Redirect"
           /\ flashed # ""
           /\ ~savedUpload /\ ~ocrInvoked /\ ~modelInvoked /\ ~executed

C3_Witness ==
    /\ pc = "Redirect"
    /\ NumericCount(selected_pages_str) > 2
    /\ flashed = "Please select a maximum of 2 pages."

\* C4: a request with an upload whose name has no extension, or one outside
\* ALLOWED_EXTENSIONS whatever its case, is rejected with a flash and a
\* redirect before the file is written; OCR and the model are not invoked.
C4_DisallowedUploadRejected ==
    (DisallowedUpload(upload) /\ pc \notin {"Idle", "Validating", "CheckUpload"})
        => /\ pc = "Redirect"
           /\ flashed # ""
           /\ ~savedUpload /\ ~ocrInvoked /\ ~modelInvoked

C4_Witness ==
    /\ pc = "Redirect"
    /\ DisallowedUpload(upload)
    /\ flashed = "File type not allowed! Please upload an image, PDF, or DOCX file."

\* C5: when the execution of non-empty extracted code raises, the failure is
\* not propagated: the request reaches Reporting and the execution output is
\* the failure indicator text.
C5_ExecFailureReported ==
    (executed /\ generated_code # << >> /\ outcome \in {"Exception", "SystemExit"})
        => /\ pc = "Reporting"
           /\ execution_output = ExecutionError

\* C6: every step of every chat call, the raising ones included, only appends
\* to the transcript, and the transcript is empty or starts with the system
\* message.
C6_TranscriptAppendOnly ==
    [][/\ IsPrefix(context, context')
       /\ (context' = << >> \/ context'[1].role = "system")]_vars

C6_Witness ==
    /\ pc = "ChatRaised"
    /\ Len(contextAtCall) >= 3
    /\ Len(context) > Len(contextAtCall)
    /\ context[1].role = "system"

\* The model replied in the current chat call
ModelReplied ==
    /\ Len(context) > Len(contextAtCall)
    /\ context[Len(context)].role = "assistant"

\* C7: after chat with save true, in which the model replied, the call has
\* returned and the store is the prior mapping with the padded input mapped
\* to the reply when the store existed and was parseable, and the
\* single-entry mapping input->reply otherwise (missing or not parseable).
C7_PersistMergesOrStartsFresh ==
    (/\ pc \in {"ChatReturned", "ChatRaised"}
     /\ save
     /\ ModelReplied
     /\ storeAtCall[json_file].kind # "list")
        => /\ pc = "ChatReturned"
           /\ store[json_file] =
                JsonObject(DictSet(IF storeAtCall[json_file].kind = "object"
                                   THEN storeAtCall[json_file].data ELSE << >>,
                                   message, response_content))

\* C8: once a request that saved an allowed upload is past the extractor
\* (it builds the prompt, or it is over), the scratch file is gone.
C8_ScratchFileRemoved ==
    (savedUpload /\ pc \notin {"Extracting", "Cleanup"}) => filename \notin scratch

\* The first fenced block tagged python: the first fence followed by the tag
\* for which a later fence exists; its inner text runs to the next fence.
BlockStarts(s) ==
    {i \in 1..(Len(s) - 1) :
        s[i] = FENCE /\ s[i + 1] = TAG /\ \E e \in (i + 2)..Len(s) : s[e] = FENCE}

FirstBlockInner(s) ==
    LET i == CHOOSE j \in BlockStarts(s) : \A j2 \in BlockStarts(s) : j <= j2
        e == CHOOSE j \in (i + 2)..Len(s) :
                s[j] = FENCE /\ \A j2 \in (i + 2)..(j - 1) : s[j2] # FENCE
    IN  SubSeq(s, i + 2, e - 1)

\* C9: extract_code returns the trimmed inner text of the first fenced block
\* tagged python, whatever follows it, and the empty string when the reply
\* has no such block.
C9_FirstBlockTrimmed ==
    pc = "Applied"
        => fnRes = IF BlockStarts(fnArgs[1]) = {} THEN << >>
                   ELSE Strip(FirstBlockInner(fnArgs[1]))

\* a reply with two python blocks, of which the first was returned
C9_Witness ==
    /\ pc = "Applied"
    /\ Cardinality(BlockStarts(fnArgs[1])) >= 2
    /\ fnRes = <<"x">>

Present(s) == s # None /\ s # << >>

\* C10: combine_inputs returns a, one space, b when both are present, the
\* present part unchanged when only one is, and the empty string when
\* neither is.
C10_JoinPresentParts ==
    pc = "Applied"
        => LET a == fnArgs[1]
               b == fnArgs[2]
           IN  fnRes = IF Present(a) /\ Present(b) THEN a \o <<" ">> \o b
                       ELSE IF Present(a) THEN a
                       ELSE IF Present(b) THEN b
                       ELSE << >>

\* one part absent, the other present: the result is the present part
C10_Witness ==
    /\ pc = "Applied"
    /\ fnArgs[1] = None
    /\ Present(fnArgs[2])
    /\ fnRes = fnArgs[2]

IsDocx(name) == EndsWith(Lower(name), <<".", "docx">>)

\* C12: when ocr_image returns for a docx input whose conversion succeeded,
\* the intermediate converted file no longer exists, also when rendering or
\* recognition raised and the text is empty; when the conversion failed the
\* text is empty.
C12_TempPdfDeleted ==
    (pc = "Cleanup" /\ IsDocx(filename))
        => /\ outcome \in {"pages_ok", "pages_raised"} => TempPdf(filename) \notin scratch
           /\ outcome \in {"pages_raised", "convert_raised"} => ocr_text = << >>

\* C11: when a request is over, the host global namespace that extracted
\* code is executed against is what it was before the request; nothing but
\* the transcript and the on-disk stores persists.
C11_NamespaceUnchanged ==
    RequestOver => hostGlobals = {}

----------------------------------------------------------------------------
(* Requests handled concurrently: each thread is in process() at line 573 *)
(* and calls get_gpt4o_response, hence gpt4o.chat, on the one global gpt4o *)

\* the prompt of thread t's request
ThreadPrompt(t) == Prompt(<<"t", DigitTok(t)>>)

\* what the model answers to thread t's call
Reply(t) == <<"reply", DigitTok(t)>>

\* a buggy variant: only the latest message is sent
MessagesSent_LastOnly(ctx) == SubSeq(ctx, Len(ctx), Len(ctx))

\* lines 226-229: messages=self.context, the shared list as it is at the call
MessagesSent(ctx) == ctx

InitConc ==
    /\ InitCommon
    /\ store = [f \in StoreFiles |-> Missing]
    /\ fnArgs = << >>
    /\ fnRes = << >>
    /\ cpc = [t \in Threads |-> "chat_append"]
    /\ cmsg = [t \in Threads |-> ThreadPrompt(t)]
    /\ csent = [t \in Threads |-> << >>]
    /\ cresp = [t \in Threads |-> None]

seqVars == <<pc, reqCount, reqVars, selected_pages, filename, scratch, ocr_text,
             combined_input, chatVars, response_text, generated_code, execution_output,
             flashed, outcome, histVars, fnVars, hostGlobals>>

\* lines 219-221 in thread t: pad the message and test self.context.  The
\* threads are not synchronised, so another thread may run between the test
\* and the appends that follow it.
ConcCheck(t) ==
    /\ cpc[t] = "chat_append"
    /\ cmsg' = [cmsg EXCEPT ![t] = cmsg[t] \o <<" ">>]
    /\ cpc' = [cpc EXCEPT ![t] = IF context = << >> THEN "append_system" ELSE "append_user"]
    /\ UNCHANGED <<context, store, csent, cresp, seqVars>>

\* line 222 in thread t
ConcSystem(t) ==
    /\ cpc[t] = "append_system"
    /\ context' = Append(context, Msg("system", <<"You are a helpful assistant.">>))
    /\ cpc' = [cpc EXCEPT ![t] = "append_user"]
    /\ UNCHANGED <<store, cmsg, csent, cresp, seqVars>>

\* line 224 in thread t
ConcUser(t) ==
    /\ cpc[t] = "append_user"
    /\ context' = Append(context, Msg("user", cmsg[t]))
    /\ cpc' = [cpc EXCEPT ![t] = "chat_call"]
    /\ UNCHANGED <<store, cmsg, csent, cresp, seqVars>>

\* lines 226-230 in thread t: the call returns a content, or raises and
\* get_gpt4o_response (lines 291-293) returns None
ConcCall(t) ==
    /\ cpc[t] = "chat_call"
    /\ csent' = [csent EXCEPT ![t] = MessagesSent(context)]
    /\ \/ /\ \E c \in {None, Reply(t)} : cresp' = [cresp EXCEPT ![t] = c]
          /\ cpc' = [cpc EXCEPT ![t] = "chat_finish"]
       \/ /\ cpc' = [cpc EXCEPT ![t] = "done"]
          /\ UNCHANGED cresp
    /\ UNCHANGED <<context, store, cmsg, seqVars>>

\* lines 232-240 in thread t, save being False
ConcFinish(t) ==
    /\ cpc[t] = "chat_finish"
    /\ context' = Append(context, Msg("assistant", cresp[t]))
    /\ store' = clear_json_files(save_to_json(store, cmsg[t], cresp[t], FALSE).store,
                                 json_files_to_clear)
    /\ cpc' = [cpc EXCEPT ![t] = "done"]
    /\ UNCHANGED <<cmsg, csent, cresp, seqVars>>

NextConc ==
    \/ \E t \in Threads : ConcCheck(t)
    \/ \E t \in Threads : ConcSystem(t)
    \/ \E t \in Threads : ConcUser(t)
    \/ \E t \in Threads : ConcCall(t)
    \/ \E t \in Threads : ConcFinish(t)

SpecConc == InitConc /\ [][NextConc]_vars

\* the position of thread t's user message in the transcript, 0 if absent
UserPos(t) ==
    IF \E i \in 1..Len(context) : context[i] = Msg("user", cmsg[t])
    THEN CHOOSE i \in 1..Len(context) : context[i] = Msg("user", cmsg[t])
    ELSE 0

InSeq(x, sq) == \E i \in 1..Len(sq) : sq[i] = x

\* C13: concurrent requests are not isolated.  The transcript sent to the
\* model for a request holds, besides the request's own user message, every
\* user message appended before it, those of the other requests included.
C13_NotIsolated ==
    \A t \in Threads :
        csent[t] # << >>
            => /\ InSeq(Msg("user", cmsg[t]), csent[t])
               /\ \A u \in Threads \ {t} :
                     (0 < UserPos(u) /\ UserPos(u) < UserPos(t))
                         => InSeq(Msg("user", cmsg[u]), csent[t])

\* the interleaving of the claim: two user messages in a row, the model was
\* sent the other request's user message for request t, and t's reply was
\* appended right after the user message of u, which it does not answer
C13_Witness ==
    \E t \in Threads : \E u \in Threads \ {t} : \E i \in 1..(Len(context) - 2) :
        /\ context[i] = Msg("user", cmsg[t])
        /\ context[i + 1] = Msg("user", cmsg[u])
        /\ context[i + 2] = Msg("assistant", Reply(t))
        /\ InSeq(Msg("user", cmsg[u]), csent[t])

====
